---- MODULE Spec2Model ----
(***************************************************************************)
(* markdown-academic Python bindings (python/markdown_academic/core.py):   *)
(* the ctypes boundary to the native rendering engine.  The model covers   *)
(* the _Library singleton (locate, open, bind), the render / PDF entry     *)
(* points with their result unwrapping, and the Document handle lifecycle. *)
(* The native engine is an external collaborator: its answers are inputs   *)
(* the actions draw from small sets.                                       *)
(***************************************************************************)
EXTENDS Integers, Sequences, FiniteSets, TLC

(* ------------------------------ bounds -------------------------------- *)

\* Document objects a run constructs.
MaxDocs == 1
\* Longest native text (error message, data, version), in chunks.
MaxMsgLen == 1
\* Largest byte count a native PDF result reports.
MaxBufLen == 1
\* Threads racing on the first use (concurrent specification only).
MaxThreads == 2

(* ----------------------- native strings and text ----------------------- *)

\* A native byte string is a sequence of chunks.  Two chunks are the markers
\* _handle_result searches for, one is ordinary text, one is a byte sequence
\* that is not valid UTF-8.
PARSE_MARK == "Parse error"
RENDER_MARK == "Render error"
PLAIN == "text"
BAD == "0xFF"

Chunks == {PARSE_MARK, RENDER_MARK, PLAIN, BAD}
DataChunks == {PLAIN, BAD}

BytesOver(alphabet, n) == UNION {[1..k -> alphabet] : k \in 0..n}

\* c_char_p: NULL, or a pointer to a (possibly empty) byte string.
NullPtr == [null |-> TRUE, bytes |-> <<>>]
Ptr(b) == [null |-> FALSE, bytes |-> b]
CStrings(alphabet, n) == {NullPtr} \cup {Ptr(b) : b \in BytesOver(alphabet, n)}

\* Truthiness of a c_char_p field read through ctypes: None for NULL, else the
\* bytes, and empty bytes are falsy.
Truthy(p) == ~p.null /\ Len(p.bytes) > 0

\* bytes.decode("utf-8"): fails on an invalid byte sequence.
decode(b) ==
    IF \E i \in 1..Len(b) : b[i] = BAD
    THEN [ok |-> FALSE, text |-> <<>>]
    ELSE [ok |-> TRUE, text |-> b]

\* str.encode("utf-8").
encode(s) == Ptr(s)

\* "marker in text"
Contains(text, marker) == \E i \in 1..Len(text) : text[i] = marker

(* ------------------------------ outcomes ------------------------------- *)

Return(v) == [kind |-> "return", exc |-> "none", value |-> v]
Raise(e, msg) == [kind |-> "raise", exc |-> e, value |-> msg]

\* The exception classes of core.py; the last three derive from the first.
MdErrors == {"MarkdownAcademicError", "ParseError", "RenderError", "PdfError"}

Call(fn, p) == [fn |-> fn, ptr |-> p]
NoReq == [kind |-> "none"]
NoRes == [kind |-> "none"]
NoPath == <<>>
NoArgs == [kind |-> "none"]

(* ------------------------------ the state ------------------------------ *)

VARIABLES
    native,       \* the installed native library: can it be opened, what it exports
    instance,     \* _Library._instance: 0 (None) or the id of the singleton object
    libs,         \* the _Library objects: _lib, _has_pdf and the bound signatures
    openCount,    \* how many times ctypes.CDLL was called
    loadCount,    \* how many times _load_library ran
    loadOutcome,  \* how the first _load_library ended
    usedInst,     \* the _Library objects the public operations obtained
    docs,         \* the Document objects
    freed,        \* per native document pointer: calls of mdacademic_free_document
    lastOp,       \* the last public operation: native calls, requests, outcome
    lastArgs,     \* the arguments the caller gave to the last operation
    threads       \* concurrent first use: each thread's position and locals

vars == <<native, instance, libs, openCount, loadCount, loadOutcome, usedInst,
          docs, freed, lastOp, lastArgs, threads>>

libVars == <<instance, libs, openCount, loadCount, loadOutcome>>

(* --------------------------- the native library ------------------------ *)

\* The exported symbols _load_library binds, in the order it binds them.
Required == <<"mdacademic_parse_and_render", "mdacademic_parse",
              "mdacademic_parse_with_config", "mdacademic_render_html",
              "mdacademic_free_string", "mdacademic_free_document",
              "mdacademic_free_result", "mdacademic_version">>
Optional == <<"mdacademic_render_pdf", "mdacademic_render_pdf_to_file",
              "mdacademic_free_pdf_data">>

Range(s) == {s[i] : i \in 1..Len(s)}

\* A native build that honours the required interface: every required symbol,
\* any subset of the feature-gated ones; or a file the loader cannot open.
ConformingBuilds ==
    {[openable |-> TRUE, exports |-> Range(Required) \cup o] : o \in SUBSET Range(Optional)}
    \cup {[openable |-> FALSE, exports |-> {}]}

(* ----------------------------- _get_library_path ----------------------- *)

Systems == {"Linux", "Darwin", "Windows", "FreeBSD"}

\* What the locator reads: MARKDOWN_ACADEMIC_LIB ("unset" also stands for the
\* empty string, which is falsy), platform.system(), and which files exist.
LocatorInputs ==
    [override : {"unset", "missing", "exists"}, system : Systems,
     package : BOOLEAN, release : BOOLEAN, debug : BOOLEAN]

lib_name(system) ==
    CASE system = "Linux" -> "libmarkdown_academic.so"
      [] system = "Darwin" -> "libmarkdown_academic.dylib"
      [] system = "Windows" -> "markdown_academic.dll"
      [] OTHER -> "none"

\* Defect: the debug build is preferred to the release build.
get_library_path_DebugFirst(e) ==
    IF e.override = "exists"
    THEN Return(<<"$MARKDOWN_ACADEMIC_LIB">>)
    ELSE IF lib_name(e.system) = "none"
    THEN Raise("MarkdownAcademicError", <<"Unsupported platform">>)
    ELSE IF e.package THEN Return(<<"package", lib_name(e.system)>>)
    ELSE IF e.debug THEN Return(<<"rust/target/debug", lib_name(e.system)>>)
    ELSE IF e.release THEN Return(<<"rust/target/release", lib_name(e.system)>>)
    ELSE Return(<<lib_name(e.system)>>)

\* Defect: an unknown platform is given the bare name instead of an error.
get_library_path_NoPlatformError(e) ==
    IF e.override = "exists"
    THEN Return(<<"$MARKDOWN_ACADEMIC_LIB">>)
    ELSE IF e.package THEN Return(<<"package", lib_name(e.system)>>)
    ELSE IF e.release THEN Return(<<"rust/target/release", lib_name(e.system)>>)
    ELSE IF e.debug THEN Return(<<"rust/target/debug", lib_name(e.system)>>)
    ELSE Return(<<lib_name(e.system)>>)

get_library_path(e) ==
    IF e.override = "exists"
    THEN Return(<<"$MARKDOWN_ACADEMIC_LIB">>)
    ELSE IF lib_name(e.system) = "none"
    THEN Raise("MarkdownAcademicError", <<"Unsupported platform">>)
    ELSE IF e.package THEN Return(<<"package", lib_name(e.system)>>)
    ELSE IF e.release THEN Return(<<"rust/target/release", lib_name(e.system)>>)
    ELSE IF e.debug THEN Return(<<"rust/target/debug", lib_name(e.system)>>)
    ELSE Return(<<lib_name(e.system)>>)

(* ------------------------------- _Library ------------------------------ *)

\* A fresh _Library object: _lib is the class default None, _has_pdf is not
\* an attribute yet, no signature is bound.
NewLibraryObject == [lib |-> FALSE, has_pdf |-> "unset", bound |-> {}]

\* Setting argtypes/restype symbol by symbol: the first symbol the library
\* does not export raises AttributeError and ends the binding.
FirstMissing(symbols, exports) ==
    IF \E i \in 1..Len(symbols) : symbols[i] \notin exports
    THEN CHOOSE i \in 1..Len(symbols) :
            /\ symbols[i] \notin exports
            /\ \A j \in 1..(i - 1) : symbols[j] \in exports
    ELSE Len(symbols) + 1

BoundPrefix(symbols, exports) ==
    {symbols[j] : j \in 1..(FirstMissing(symbols, exports) - 1)}

\* Defect: the flag is set as soon as the first optional symbol was bound.
bind_optional_FirstOnly(obj, exports) ==
    [obj EXCEPT !.bound = @ \cup BoundPrefix(Optional, exports),
                !.has_pdf = IF Optional[1] \in exports THEN "true" ELSE "false"]

\* The optional block of _load_library (try ... except AttributeError).
bind_optional(obj, exports) ==
    [obj EXCEPT !.bound = @ \cup BoundPrefix(Optional, exports),
                !.has_pdf = IF FirstMissing(Optional, exports) > Len(Optional)
                            THEN "true" ELSE "false"]

\* The required block of _load_library.
bind_required(obj, exports) ==
    [obj EXCEPT !.bound = @ \cup BoundPrefix(Required, exports)]

\* _load_library on a fresh object: [obj, opened, out, path].
load_library(e, build) ==
    LET p == get_library_path(e) IN
    IF p.kind = "raise"
    THEN [obj |-> NewLibraryObject, opened |-> 0, out |-> p, path |-> NoPath]
    ELSE IF ~build.openable
    THEN [obj |-> NewLibraryObject, opened |-> 1, path |-> p.value,
          out |-> Raise("MarkdownAcademicError", <<"Failed to load">>)]
    ELSE LET o1 == [NewLibraryObject EXCEPT !.lib = TRUE]
             o2 == bind_required(o1, build.exports)
         IN IF FirstMissing(Required, build.exports) <= Len(Required)
            THEN [obj |-> o2, opened |-> 1, path |-> p.value,
                  out |-> Raise("AttributeError", <<"undefined symbol">>)]
            ELSE [obj |-> bind_optional(o2, build.exports), opened |-> 1,
                  path |-> p.value, out |-> Return(<<>>)]

\* The first _Library(): a new object becomes _instance, then _load_library
\* runs on it.  The record is the state of the singleton after the call, the
\* object obtained (0 when the call raised) and how the call ended.
first_use(e) ==
    LET r == load_library(e, native) IN
    [instance |-> Len(libs) + 1, libs |-> Append(libs, r.obj),
     openCount |-> openCount + r.opened, loadCount |-> loadCount + 1,
     loadOutcome |-> IF loadOutcome = "pending"
                     THEN (IF r.out.kind = "raise" THEN r.out.exc ELSE "ok")
                     ELSE loadOutcome,
     path |-> r.path,
     inst |-> IF r.out.kind = "raise" THEN 0 ELSE Len(libs) + 1,
     out |-> r.out]

\* Defect: __new__ without the "is None" test loads on every call.
Library_new_NoCheck(e) == first_use(e)

\* _Library.__new__
Library_new(e) ==
    IF instance = 0
    THEN first_use(e)
    ELSE [instance |-> instance, libs |-> libs, openCount |-> openCount,
          loadCount |-> loadCount, loadOutcome |-> loadOutcome, path |-> NoPath,
          inst |-> instance, out |-> Return(<<>>)]

\* The lib property.
lib_loaded(obj) == obj.lib

\* Looking a function up on the CDLL handle: AttributeError when the library
\* does not export it.
Exported(fn) == fn \in native.exports

SetLibrary(L) ==
    /\ instance' = L.instance
    /\ libs' = L.libs
    /\ openCount' = L.openCount
    /\ loadCount' = L.loadCount
    /\ loadOutcome' = L.loadOutcome
    /\ usedInst' = IF L.inst = 0 THEN usedInst ELSE usedInst \cup {L.inst}

NotLoaded == Raise("MarkdownAcademicError", <<"Library not loaded">>)
NoAttribute == Raise("AttributeError", <<"no attribute">>)

(* ------------------------------ marshaling ----------------------------- *)

\* Optional[str]: None is NullPtr, a str is Ptr(text).
OptStrings == {NullPtr, Ptr(<<>>), Ptr(<<"dir">>)}

KATEX == 0
MATHJAX == 1
MATHML == 2
MathBackends == {KATEX, MATHJAX, MATHML}

\* RenderConfig values, and None (no config given).
RenderConfigs ==
    [is_none : {FALSE}, math_backend : MathBackends, standalone : BOOLEAN,
     base_path : OptStrings]
ConfigNone ==
    [is_none |-> TRUE, math_backend |-> KATEX, standalone |-> FALSE,
     base_path |-> NullPtr]

\* RenderConfig()
DefaultRenderConfig ==
    [is_none |-> FALSE, math_backend |-> KATEX, standalone |-> FALSE,
     base_path |-> NullPtr]

\* Defect: the math backend is not copied into the struct.
make_config_KatexOnly(config) ==
    LET c == IF config.is_none THEN DefaultRenderConfig ELSE config IN
    [kind |-> "render",
     math_backend |-> KATEX,
     standalone |-> IF c.standalone THEN 1 ELSE 0,
     base_path |-> IF Truthy(c.base_path) THEN encode(c.base_path.bytes) ELSE NullPtr]

\* _make_config
make_config(config) ==
    LET c == IF config.is_none THEN DefaultRenderConfig ELSE config IN
    [kind |-> "render",
     math_backend |-> c.math_backend,
     standalone |-> IF c.standalone THEN 1 ELSE 0,
     base_path |-> IF Truthy(c.base_path) THEN encode(c.base_path.bytes) ELSE NullPtr]

(* ------------------------------ _handle_result ------------------------- *)

\* _MdAcademicResult as the native engine may return it.
RenderResults ==
    [kind : {"render"}, data : CStrings(DataChunks, MaxMsgLen),
     error : CStrings(Chunks, MaxMsgLen)]

\* The try block of _handle_result.
handle_result_try(result) ==
    IF Truthy(result.error)
    THEN LET d == decode(result.error.bytes) IN
         IF ~d.ok THEN Raise("UnicodeDecodeError", <<>>)
         ELSE IF Contains(d.text, PARSE_MARK) THEN Raise("ParseError", d.text)
         ELSE IF Contains(d.text, RENDER_MARK) THEN Raise("RenderError", d.text)
         ELSE Raise("MarkdownAcademicError", d.text)
    ELSE IF result.data.null
    THEN Raise("MarkdownAcademicError", <<"No data returned">>)
    ELSE LET d == decode(result.data.bytes) IN
         IF ~d.ok THEN Raise("UnicodeDecodeError", <<>>) ELSE Return(d.text)

\* Defect: the struct is freed on the success path only (no finally clause).
handle_result_NoFinally(result) ==
    [out |-> handle_result_try(result),
     calls |-> IF handle_result_try(result).kind = "return"
               THEN <<Call("mdacademic_free_result", 0)>> ELSE <<>>]

\* Reading a c_char_p field of a result struct copies the native string it
\* points to into a bytes object; a NULL field reads as None and touches no
\* native memory.  The log of an operation holds such reads among its calls.
Read(field) == Call(field, 0)
ReadOf(field, p) == IF p.null THEN <<>> ELSE <<Read(field)>>

\* The reads of the try block of _handle_result, in order: the test of
\* result.error and its decode, else the test of result.data and its decode.
handle_result_reads(result) ==
    IF Truthy(result.error)
    THEN <<Read("read error"), Read("read error")>>
    ELSE ReadOf("read error", result.error)
         \o ReadOf("read data", result.data) \o ReadOf("read data", result.data)

\* Defect: the struct is freed first and its data decoded afterwards.
handle_result_FreeFirst(result) ==
    [out |-> handle_result_try(result),
     calls |-> <<Call("mdacademic_free_result", 0)>> \o handle_result_reads(result)]

\* _handle_result: the try block, then the finally clause frees the struct.
\* An exception raised in the finally clause replaces the pending outcome.
handle_result(result) ==
    IF Exported("mdacademic_free_result")
    THEN [out |-> handle_result_try(result),
          calls |-> handle_result_reads(result)
                        \o <<Call("mdacademic_free_result", 0)>>]
    ELSE [out |-> NoAttribute, calls |-> handle_result_reads(result)]

(* --------------------------- one-shot rendering ------------------------ *)

\* What an operation did: its outcome, the native calls in order, the request
\* struct it sent and the result struct it received.
Effect(out, calls, req, res) ==
    [out |-> out, calls |-> calls, req |-> req, res |-> res]

\* parse_and_render, after library = _Library() gave L.
parse_and_render(L, config, result) ==
    IF L.out.kind = "raise" THEN Effect(L.out, <<>>, NoReq, NoRes)
    ELSE IF ~lib_loaded(L.libs[L.inst]) THEN Effect(NotLoaded, <<>>, NoReq, NoRes)
    ELSE IF ~Exported("mdacademic_parse_and_render")
    THEN Effect(NoAttribute, <<>>, NoReq, NoRes)
    ELSE LET h == handle_result(result) IN
         Effect(h.out, <<Call("mdacademic_parse_and_render", 0)>> \o h.calls,
                make_config(config), result)

\* render(text, math_backend=, standalone=, base_path=)
render(L, math_backend, standalone, base_path, result) ==
    parse_and_render(L, [is_none |-> FALSE, math_backend |-> math_backend,
                         standalone |-> standalone, base_path |-> base_path],
                     result)

Op(name, d, pre, path, eff) ==
    [name |-> name, doc |-> d, pre |-> pre, path |-> path, out |-> eff.out,
     calls |-> eff.calls, req |-> eff.req, res |-> eff.res]

\* The environment is read by the first _Library() alone: later calls return
\* the stored instance without looking at it.
DefaultLocatorInput ==
    [override |-> "unset", system |-> "Linux", package |-> TRUE, release |-> FALSE,
     debug |-> FALSE]
Environment == IF instance = 0 THEN LocatorInputs ELSE {DefaultLocatorInput}

Do_parse_and_render(configs, results) ==
    \E e \in Environment, config \in configs, result \in results :
        LET L == Library_new(e) IN
        /\ SetLibrary(L)
        /\ lastOp' = Op("parse_and_render", 0, 0, L.path,
                        parse_and_render(L, config, result))
        /\ lastArgs' = config
        /\ UNCHANGED <<native, docs, freed, threads>>

Do_render(configs, results) ==
    \E e \in Environment, config \in configs, result \in results :
        LET L == Library_new(e) IN
        /\ SetLibrary(L)
        /\ lastOp' = Op("render", 0, 0, L.path,
                        render(L, config.math_backend, config.standalone,
                               config.base_path, result))
        /\ lastArgs' = config
        /\ UNCHANGED <<native, docs, freed, threads>>

(* -------------------------------- Document ----------------------------- *)

\* A Document object.  doc_ptr is -1 while the attribute does not exist, 0 for
\* None, else the native pointer (document d's pointer is d).  library is the
\* _Library object in self._library, 0 while the attribute does not exist.
\* parse records what the native parse returned to __init__; released records
\* that __exit__ or __del__ has run on a successfully parsed document.  Of a
\* parsed document, base_path is the argument __init__ was given and parsed is
\* the native parse call that made the pointer.
NoParse == [fn |-> "none", req |-> NoReq]
Unborn ==
    [phase |-> "unborn", library |-> 0, doc_ptr |-> -1, parse |-> "none",
     released |-> FALSE, base_path |-> NullPtr, parsed |-> NoParse]

DocumentFreed == Raise("MarkdownAcademicError", <<"Document has been freed">>)

\* Document.__init__, after _Library() gave L; ptr is what the native parse
\* returns (0 is NULL).
Document_init(L, d, base_path, ptr) ==
    IF L.out.kind = "raise"
    THEN [doc |-> [Unborn EXCEPT !.phase = "failed"],
          eff |-> Effect(L.out, <<>>, NoReq, NoRes)]
    ELSE LET d0 == [Unborn EXCEPT !.library = L.inst, !.doc_ptr = 0,
                                  !.phase = "failed"]
             fn == IF Truthy(base_path) THEN "mdacademic_parse_with_config"
                   ELSE "mdacademic_parse"
             req == IF Truthy(base_path)
                    THEN [kind |-> "render", math_backend |-> 0, standalone |-> 0,
                          base_path |-> encode(base_path.bytes)]
                    ELSE NoReq
         IN IF ~lib_loaded(L.libs[L.inst])
            THEN [doc |-> d0, eff |-> Effect(NotLoaded, <<>>, NoReq, NoRes)]
            ELSE IF ~Exported(fn)
            THEN [doc |-> d0, eff |-> Effect(NoAttribute, <<>>, NoReq, NoRes)]
            ELSE IF ptr = 0
            THEN [doc |-> [d0 EXCEPT !.parse = "null"],
                  eff |-> Effect(Raise("ParseError", <<"Failed to parse document">>),
                                 <<Call(fn, 0)>>, req, NoRes)]
            ELSE [doc |-> [d0 EXCEPT !.parse = "ok", !.doc_ptr = ptr,
                                     !.phase = "constructed",
                                     !.base_path = base_path,
                                     !.parsed = [fn |-> fn, req |-> req]],
                  eff |-> Effect(Return(<<>>), <<Call(fn, 0)>>, req, NoRes)]

\* Defect: render without the test of the stored pointer.
Document_render_NoGuard(doc, math_backend, standalone, result) ==
    IF doc.doc_ptr = -1 THEN Effect(NoAttribute, <<>>, NoReq, NoRes)
    ELSE LET h == handle_result(result) IN
         Effect(h.out, <<Call("mdacademic_render_html", doc.doc_ptr)>> \o h.calls,
                [kind |-> "render", math_backend |-> math_backend,
                 standalone |-> IF standalone THEN 1 ELSE 0, base_path |-> NullPtr],
                result)

\* Defect: render sends standalone = 0 whatever the caller asked for.
Document_render_NoStandalone(doc, math_backend, standalone, result) ==
    IF doc.doc_ptr = -1 THEN Effect(NoAttribute, <<>>, NoReq, NoRes)
    ELSE IF doc.doc_ptr = 0 THEN Effect(DocumentFreed, <<>>, NoReq, NoRes)
    ELSE IF ~lib_loaded(libs[doc.library]) THEN Effect(NotLoaded, <<>>, NoReq, NoRes)
    ELSE IF ~Exported("mdacademic_render_html")
    THEN Effect(NoAttribute, <<>>, NoReq, NoRes)
    ELSE LET h == handle_result(result) IN
         Effect(h.out, <<Call("mdacademic_render_html", doc.doc_ptr)>> \o h.calls,
                [kind |-> "render", math_backend |-> math_backend,
                 standalone |-> 0, base_path |-> NullPtr],
                result)

\* Defect: render releases the native document once it has the result.
Document_render_ThenFree(doc, math_backend, standalone, result) ==
    IF doc.doc_ptr = -1 THEN Effect(NoAttribute, <<>>, NoReq, NoRes)
    ELSE IF doc.doc_ptr = 0 THEN Effect(DocumentFreed, <<>>, NoReq, NoRes)
    ELSE LET h == handle_result(result) IN
         Effect(h.out,
                <<Call("mdacademic_render_html", doc.doc_ptr)>> \o h.calls
                    \o <<Call("mdacademic_free_document", doc.doc_ptr)>>,
                [kind |-> "render", math_backend |-> math_backend,
                 standalone |-> IF standalone THEN 1 ELSE 0, base_path |-> NullPtr],
                result)

\* Document.render
Document_render(doc, math_backend, standalone, result) ==
    IF doc.doc_ptr = -1 THEN Effect(NoAttribute, <<>>, NoReq, NoRes)
    ELSE IF doc.doc_ptr = 0 THEN Effect(DocumentFreed, <<>>, NoReq, NoRes)
    ELSE IF ~lib_loaded(libs[doc.library]) THEN Effect(NotLoaded, <<>>, NoReq, NoRes)
    ELSE IF ~Exported("mdacademic_render_html")
    THEN Effect(NoAttribute, <<>>, NoReq, NoRes)
    ELSE LET h == handle_result(result) IN
         Effect(h.out, <<Call("mdacademic_render_html", doc.doc_ptr)>> \o h.calls,
                [kind |-> "render", math_backend |-> math_backend,
                 standalone |-> IF standalone THEN 1 ELSE 0, base_path |-> NullPtr],
                result)

\* Defect: the native document is freed but the stored pointer is kept.
free_and_null_KeepsPointer(doc) ==
    [doc |-> doc,
     eff |-> Effect(Return(<<>>), <<Call("mdacademic_free_document", doc.doc_ptr)>>,
                    NoReq, NoRes)]

\* The body shared by __exit__ and __del__ once their guard passed: free the
\* native document, then null the stored pointer.
free_and_null(doc) ==
    IF ~lib_loaded(libs[doc.library])
    THEN [doc |-> doc, eff |-> Effect(NotLoaded, <<>>, NoReq, NoRes)]
    ELSE IF ~Exported("mdacademic_free_document")
    THEN [doc |-> doc, eff |-> Effect(NoAttribute, <<>>, NoReq, NoRes)]
    ELSE [doc |-> [doc EXCEPT !.doc_ptr = 0],
          eff |-> Effect(Return(<<>>),
                         <<Call("mdacademic_free_document", doc.doc_ptr)>>,
                         NoReq, NoRes)]

\* Defect: __exit__ frees the native document and leaves the pointer set.
Document_exit_NoNull(doc) ==
    IF doc.doc_ptr = -1
    THEN [doc |-> doc, eff |-> Effect(NoAttribute, <<>>, NoReq, NoRes)]
    ELSE IF doc.doc_ptr # 0
    THEN free_and_null_KeepsPointer(doc)
    ELSE [doc |-> doc, eff |-> Effect(Return(<<>>), <<>>, NoReq, NoRes)]

\* Document.__exit__
Document_exit(doc) ==
    IF doc.doc_ptr = -1
    THEN [doc |-> doc, eff |-> Effect(NoAttribute, <<>>, NoReq, NoRes)]
    ELSE IF doc.doc_ptr # 0
    THEN free_and_null(doc)
    ELSE [doc |-> doc, eff |-> Effect(Return(<<>>), <<>>, NoReq, NoRes)]

\* Defect: the finalizer frees whatever the stored pointer is, None included.
Document_del_NoGuard(doc) ==
    IF doc.doc_ptr = -1
    THEN [doc |-> doc, eff |-> Effect(NoAttribute, <<>>, NoReq, NoRes)]
    ELSE free_and_null(doc)

\* Document.__del__
Document_del(doc) ==
    IF doc.doc_ptr = -1
    THEN [doc |-> doc, eff |-> Effect(NoAttribute, <<>>, NoReq, NoRes)]
    ELSE IF doc.doc_ptr # 0 /\ doc.library # 0
    THEN free_and_null(doc)
    ELSE [doc |-> doc, eff |-> Effect(Return(<<>>), <<>>, NoReq, NoRes)]

\* Document.__enter__
Document_enter(doc) == Effect(Return(<<"self">>), <<>>, NoReq, NoRes)

Docs == 1..MaxDocs

\* The calls of mdacademic_free_document an operation made with pointer p.
FreesOf(calls, p) ==
    Cardinality({i \in 1..Len(calls) :
                    calls[i] = Call("mdacademic_free_document", p)})

CountFrees(calls) == [p \in Docs |-> freed[p] + FreesOf(calls, p)]

\* An object a caller can still reach: its methods can be invoked.
Reachable(d) == docs[d].phase \in {"constructed", "failed"}

MarkReleased(doc) == [doc EXCEPT !.released = (doc.parse = "ok")]

Do_Document_init(base_paths) ==
    \E d \in Docs, e \in Environment, base_path \in base_paths :
      \E ptr \in {0, d} :
        LET L == Library_new(e)
            r == Document_init(L, d, base_path, ptr)
        IN /\ docs[d].phase = "unborn"
           /\ \A c \in Docs : c < d => docs[c].phase # "unborn"
           /\ SetLibrary(L)
           /\ docs' = [docs EXCEPT ![d] = r.doc]
           /\ lastOp' = Op("Document.__init__", d, -1, L.path, r.eff)
           /\ lastArgs' = [base_path |-> base_path]
           /\ UNCHANGED <<native, freed, threads>>

Do_Document_render(options, results) ==
    \E d \in Docs, o \in options, result \in results :
        /\ Reachable(d)
        /\ lastOp' = Op("Document.render", d, docs[d].doc_ptr, NoPath,
                        Document_render(docs[d], o.math_backend, o.standalone, result))
        /\ lastArgs' = o
        /\ UNCHANGED <<native, libVars, usedInst, docs, freed, threads>>

Do_Document_enter ==
    \E d \in Docs :
        /\ Reachable(d)
        /\ lastOp' = Op("Document.__enter__", d, docs[d].doc_ptr, NoPath,
                        Document_enter(docs[d]))
        /\ lastArgs' = NoArgs
        /\ UNCHANGED <<native, libVars, usedInst, docs, freed, threads>>

Do_Document_exit ==
    \E d \in Docs :
        LET r == Document_exit(docs[d]) IN
        /\ Reachable(d)
        /\ docs' = [docs EXCEPT ![d] = MarkReleased(r.doc)]
        /\ freed' = CountFrees(r.eff.calls)
        /\ lastOp' = Op("Document.__exit__", d, docs[d].doc_ptr, NoPath, r.eff)
        /\ lastArgs' = NoArgs
        /\ UNCHANGED <<native, libVars, usedInst, threads>>

\* The finalizer runs when the object becomes unreachable; no method runs on
\* the object afterwards.
Do_Document_del ==
    \E d \in Docs :
        LET r == Document_del(docs[d]) IN
        /\ Reachable(d)
        /\ docs' = [docs EXCEPT ![d] = [MarkReleased(r.doc) EXCEPT !.phase = "collected"]]
        /\ freed' = CountFrees(r.eff.calls)
        /\ lastOp' = Op("Document.__del__", d, docs[d].doc_ptr, NoPath, r.eff)
        /\ lastArgs' = NoArgs
        /\ UNCHANGED <<native, libVars, usedInst, threads>>

(* ---------------------------------- PDF -------------------------------- *)

LETTER == 0
A4 == 1
DefaultFontSize == 11

\* The keyword arguments of render_pdf / render_pdf_to_file.
PdfArgs ==
    [paper_size : {LETTER, A4}, font_size : {DefaultFontSize}, title_page : {FALSE},
     page_numbers : {TRUE}, title : OptStrings, base_path : OptStrings]

\* _make_pdf_config
make_pdf_config(config) ==
    [kind |-> "pdf",
     paper_size |-> config.paper_size,
     font_size |-> config.font_size,
     title_page |-> IF config.title_page THEN 1 ELSE 0,
     page_numbers |-> IF config.page_numbers THEN 1 ELSE 0,
     title |-> IF Truthy(config.title) THEN encode(config.title.bytes) ELSE NullPtr,
     base_path |-> IF Truthy(config.base_path) THEN encode(config.base_path.bytes)
                   ELSE NullPtr]

\* _MdAcademicPdfResult as the native engine may return it: data is whether
\* the buffer pointer is non-null.
PdfResults ==
    [kind : {"pdf"}, data : BOOLEAN, len : 0..MaxBufLen,
     error : CStrings(DataChunks, MaxMsgLen)]

Unavailable == Raise("MarkdownAcademicError", <<"PDF support is not available">>)

\* Defect: an empty buffer is reported with the base error class.
render_pdf_try_BaseError(result) ==
    IF Truthy(result.error)
    THEN [out |-> Raise("PdfError", decode(result.error.bytes).text),
          calls |-> <<Call("mdacademic_free_string", 0)>>]
    ELSE IF ~result.data \/ result.len = 0
    THEN [out |-> Raise("MarkdownAcademicError", <<"No PDF data returned">>),
          calls |-> <<>>]
    ELSE [out |-> Return([i \in 1..result.len |-> "byte"]), calls |-> <<>>]

\* The try block of render_pdf: outcome and native calls.
render_pdf_try(result) ==
    IF Truthy(result.error)
    THEN LET d == decode(result.error.bytes)
             reads == <<Read("read error"), Read("read error")>>
         IN
         IF ~d.ok THEN [out |-> Raise("UnicodeDecodeError", <<>>), calls |-> reads]
         ELSE IF ~Exported("mdacademic_free_string")
         THEN [out |-> NoAttribute, calls |-> reads]
         ELSE [out |-> Raise("PdfError", d.text),
               calls |-> reads \o <<Read("read error"),
                                    Call("mdacademic_free_string", 0)>>]
    ELSE IF ~result.data \/ result.len = 0
    THEN [out |-> Raise("PdfError", <<"No PDF data returned">>),
          calls |-> ReadOf("read error", result.error)]
    ELSE [out |-> Return([i \in 1..result.len |-> "byte"]),
          calls |-> ReadOf("read error", result.error) \o <<Read("read data")>>]

\* The finally clause of render_pdf.
render_pdf_finally(result) ==
    IF result.data /\ result.len > 0
    THEN <<Call("mdacademic_free_pdf_data", 0)>>
    ELSE <<>>

\* Defect: the gate lets every call through.
pdf_gate_Open(obj) == Return(<<>>)

\* The gate both PDF entry points open with: library.has_pdf.
pdf_gate(obj) ==
    IF obj.has_pdf = "unset" THEN NoAttribute
    ELSE IF obj.has_pdf = "false" THEN Unavailable
    ELSE Return(<<>>)

\* render_pdf, after library = _Library() gave L.
render_pdf(L, args, result) ==
    IF L.out.kind = "raise" THEN Effect(L.out, <<>>, NoReq, NoRes)
    ELSE IF pdf_gate(L.libs[L.inst]).kind = "raise"
    THEN Effect(pdf_gate(L.libs[L.inst]), <<>>, NoReq, NoRes)
    ELSE IF ~lib_loaded(L.libs[L.inst]) THEN Effect(NotLoaded, <<>>, NoReq, NoRes)
    ELSE IF ~Exported("mdacademic_render_pdf")
    THEN Effect(NoAttribute, <<>>, NoReq, NoRes)
    ELSE LET t == render_pdf_try(result) IN
         Effect(t.out,
                <<Call("mdacademic_render_pdf", 0)>> \o t.calls
                    \o render_pdf_finally(result),
                make_pdf_config(args), result)

\* The status mdacademic_render_pdf_to_file may return.
Statuses == {0, 1, -1}

\* render_pdf_to_file, after library = _Library() gave L.
render_pdf_to_file(L, args, status) ==
    IF L.out.kind = "raise" THEN Effect(L.out, <<>>, NoReq, NoRes)
    ELSE IF pdf_gate(L.libs[L.inst]).kind = "raise"
    THEN Effect(pdf_gate(L.libs[L.inst]), <<>>, NoReq, NoRes)
    ELSE IF ~lib_loaded(L.libs[L.inst]) THEN Effect(NotLoaded, <<>>, NoReq, NoRes)
    ELSE IF ~Exported("mdacademic_render_pdf_to_file")
    THEN Effect(NoAttribute, <<>>, NoReq, NoRes)
    ELSE Effect(IF status # 0 THEN Raise("PdfError", <<"Failed to write PDF">>)
                ELSE Return(<<>>),
                <<Call("mdacademic_render_pdf_to_file", 0)>>,
                make_pdf_config(args), [kind |-> "status", status |-> status])

\* has_pdf_support
has_pdf_support(L) ==
    IF L.out.kind = "raise" THEN Effect(L.out, <<>>, NoReq, NoRes)
    ELSE IF L.libs[L.inst].has_pdf = "unset" THEN Effect(NoAttribute, <<>>, NoReq, NoRes)
    ELSE Effect(Return(<<L.libs[L.inst].has_pdf>>), <<>>, NoReq, NoRes)

\* get_library_version; version is what mdacademic_version returns.
get_library_version(L, version) ==
    IF L.out.kind = "raise" THEN Effect(L.out, <<>>, NoReq, NoRes)
    ELSE IF ~lib_loaded(L.libs[L.inst]) THEN Effect(NotLoaded, <<>>, NoReq, NoRes)
    ELSE IF ~Exported("mdacademic_version")
    THEN Effect(NoAttribute, <<>>, NoReq, NoRes)
    ELSE Effect(IF version.null THEN NoAttribute
                ELSE IF ~decode(version.bytes).ok THEN Raise("UnicodeDecodeError", <<>>)
                ELSE Return(decode(version.bytes).text),
                <<Call("mdacademic_version", 0)>>, NoReq, NoRes)

Do_render_pdf(arguments, results) ==
    \E e \in Environment, args \in arguments, result \in results :
        LET L == Library_new(e) IN
        /\ SetLibrary(L)
        /\ lastOp' = Op("render_pdf", 0, 0, L.path, render_pdf(L, args, result))
        /\ lastArgs' = args
        /\ UNCHANGED <<native, docs, freed, threads>>

Do_render_pdf_to_file(arguments, statuses) ==
    \E e \in Environment, args \in arguments, status \in statuses :
        LET L == Library_new(e) IN
        /\ SetLibrary(L)
        /\ lastOp' = Op("render_pdf_to_file", 0, 0, L.path,
                        render_pdf_to_file(L, args, status))
        /\ lastArgs' = args
        /\ UNCHANGED <<native, docs, freed, threads>>

Do_has_pdf_support ==
    \E e \in Environment :
        LET L == Library_new(e) IN
        /\ SetLibrary(L)
        /\ lastOp' = Op("has_pdf_support", 0, 0, L.path, has_pdf_support(L))
        /\ lastArgs' = NoArgs
        /\ UNCHANGED <<native, docs, freed, threads>>

Do_get_library_version(versions) ==
    \E e \in Environment, version \in versions :
        LET L == Library_new(e) IN
        /\ SetLibrary(L)
        /\ lastOp' = Op("get_library_version", 0, 0, L.path,
                        get_library_version(L, version))
        /\ lastArgs' = NoArgs
        /\ UNCHANGED <<native, docs, freed, threads>>

\* _get_library_path called on its own, in any environment.
Do_get_library_path ==
    \E e \in LocatorInputs :
        /\ lastOp' = Op("_get_library_path", 0, 0, NoPath,
                        Effect(get_library_path(e), <<>>, NoReq, NoRes))
        /\ lastArgs' = e
        /\ UNCHANGED <<native, libVars, usedInst, docs, freed, threads>>

(* --------------------------- the specification ------------------------- *)

Threads == 1..MaxThreads

IdleThread == [pc |-> "idle", self |-> 0, path |-> NoPath, got |-> 0, early |-> FALSE]

NoOp == Op("none", 0, 0, NoPath, Effect(Return(<<>>), <<>>, NoReq, NoRes))

\* The state of a process that imported the module and called nothing yet,
\* with one of the given native builds installed.
InitWith(builds) ==
    /\ native \in builds
    /\ instance = 0
    /\ libs = <<>>
    /\ openCount = 0
    /\ loadCount = 0
    /\ loadOutcome = "pending"
    /\ usedInst = {}
    /\ docs = [d \in Docs |-> Unborn]
    /\ freed = [d \in Docs |-> 0]
    /\ lastOp = NoOp
    /\ lastArgs = NoArgs
    /\ threads = [t \in Threads |-> IdleThread]

Init == InitWith(ConformingBuilds)

(* Representative inputs of the whole-API specification: one of each shape  *)
(* the handlers branch on.                                                 *)
RenderResult(data, error) == [kind |-> "render", data |-> data, error |-> error]
SampleRenderResults ==
    {RenderResult(Ptr(<<PLAIN>>), NullPtr), RenderResult(NullPtr, Ptr(<<RENDER_MARK>>)),
     RenderResult(NullPtr, Ptr(<<BAD>>)), RenderResult(NullPtr, NullPtr)}
SampleRenderConfigs ==
    {DefaultRenderConfig,
     [is_none |-> FALSE, math_backend |-> MATHJAX, standalone |-> TRUE,
      base_path |-> Ptr(<<"dir">>)]}
RenderOptions == [math_backend : MathBackends, standalone : BOOLEAN]
SampleRenderOptions ==
    {[math_backend |-> KATEX, standalone |-> FALSE],
     [math_backend |-> MATHML, standalone |-> TRUE]}
PdfResult(data, len, error) ==
    [kind |-> "pdf", data |-> data, len |-> len, error |-> error]
SamplePdfResults ==
    {PdfResult(TRUE, 1, NullPtr), PdfResult(FALSE, 0, Ptr(<<PLAIN>>)),
     PdfResult(FALSE, 0, Ptr(<<BAD>>)), PdfResult(FALSE, 0, NullPtr)}
SamplePdfArgs ==
    {[paper_size |-> LETTER, font_size |-> DefaultFontSize, title_page |-> FALSE,
      page_numbers |-> TRUE, title |-> NullPtr, base_path |-> NullPtr],
     [paper_size |-> A4, font_size |-> DefaultFontSize, title_page |-> FALSE,
      page_numbers |-> TRUE, title |-> Ptr(<<"dir">>), base_path |-> Ptr(<<>>)]}
SampleVersions == {Ptr(<<PLAIN>>), NullPtr}
SampleStatuses == {0, 1}

\* Any single-threaded sequence of public operations.
Next ==
    \/ Do_render(SampleRenderConfigs, SampleRenderResults)
    \/ Do_parse_and_render(SampleRenderConfigs \cup {ConfigNone}, SampleRenderResults)
    \/ Do_Document_init(OptStrings)
    \/ Do_Document_render(SampleRenderOptions, SampleRenderResults)
    \/ Do_Document_enter
    \/ Do_Document_exit
    \/ Do_Document_del
    \/ Do_get_library_version(SampleVersions)
    \/ Do_has_pdf_support
    \/ Do_render_pdf(SamplePdfArgs, SamplePdfResults)
    \/ Do_render_pdf_to_file(SamplePdfArgs, SampleStatuses)

Spec == Init /\ [][Next]_vars

\* The result unmarshaler over every result struct within the bound: the
\* one-shot entry points and rendering from a handle.
NextRender ==
    \/ Do_render({DefaultRenderConfig}, RenderResults)
    \/ Do_parse_and_render({ConfigNone}, RenderResults)
    \/ Do_Document_init({NullPtr})
    \/ Do_Document_render({[math_backend |-> KATEX, standalone |-> FALSE]}, RenderResults)

\* The unmarshaler does not read the PDF symbols: the build either exports
\* everything or cannot be opened.
InitRender ==
    /\ Init
    /\ (native.openable => Range(Optional) \subseteq native.exports)

SpecRender == InitRender /\ [][NextRender]_vars

\* The PDF entry points over every PDF result struct within the bounds.
NextPdf ==
    \/ Do_has_pdf_support
    \/ Do_render_pdf(SamplePdfArgs, PdfResults)
    \/ Do_render_pdf_to_file(PdfArgs, Statuses)

SpecPdf == Init /\ [][NextPdf]_vars

\* The request marshalers over every configuration: the entry points that
\* build a request struct, each with one successful native answer.
NextMarshal ==
    \/ Do_render(RenderConfigs, {RenderResult(Ptr(<<PLAIN>>), NullPtr)})
    \/ Do_parse_and_render(RenderConfigs \cup {ConfigNone},
                           {RenderResult(Ptr(<<PLAIN>>), NullPtr)})
    \/ Do_render_pdf(PdfArgs, {PdfResult(TRUE, 1, NullPtr)})
    \/ Do_render_pdf_to_file(PdfArgs, {0})

SpecMarshal == InitRender /\ [][NextMarshal]_vars

\* A mismatched or corrupt native build: it can be opened but lacks one of
\* the required symbols.
MismatchedBuilds ==
    {[openable |-> TRUE, exports |-> (Range(Required) \ {r}) \cup Range(Optional)] :
        r \in Range(Required)}

\* Any single-threaded sequence of public operations on a mismatched build.
SpecMismatched == InitWith(MismatchedBuilds) /\ [][Next]_vars

\* The locator over every environment.
NextLocator == Do_get_library_path

SpecLocator == Init /\ [][NextLocator]_vars

(* ------------------------ concurrent first use ------------------------- *)

(* Several threads call _Library() for the first time.  The interpreter may *)
(* switch threads between any two bytecodes, so the test of _instance, the  *)
(* assignment to it and the steps of _load_library are separate actions;    *)
(* the code takes no lock.                                                  *)

SetThread(t, th) == threads' = [threads EXCEPT ![t] = th]

\* The positions at which a thread is inside _load_library.
Loading == {"load", "locate", "open", "bind_required", "bind_optional"}

\* if cls._instance is None
T_check(t) ==
    /\ threads[t].pc = "idle"
    /\ SetThread(t, [threads[t] EXCEPT !.pc = IF instance = 0 THEN "new" ELSE "return"])
    /\ UNCHANGED <<native, libVars, usedInst, docs, freed, lastOp, lastArgs>>

\* cls._instance = super().__new__(cls)
T_new(t) ==
    /\ threads[t].pc = "new"
    /\ libs' = Append(libs, NewLibraryObject)
    /\ instance' = Len(libs) + 1
    /\ SetThread(t, [threads[t] EXCEPT !.pc = "load"])
    /\ UNCHANGED <<native, openCount, loadCount, loadOutcome, usedInst, docs, freed, lastOp, lastArgs>>

\* cls._instance._load_library(): the receiver is read from the class again.
T_load(t) ==
    /\ threads[t].pc = "load"
    /\ loadCount' = loadCount + 1
    /\ SetThread(t, [threads[t] EXCEPT !.pc = "locate", !.self = instance])
    /\ UNCHANGED <<native, instance, libs, openCount, loadOutcome, usedInst, docs, freed, lastOp, lastArgs>>

\* lib_path = _get_library_path()
T_locate(t) ==
    \E e \in LocatorInputs :
        LET p == get_library_path(e) IN
        /\ threads[t].pc = "locate"
        /\ SetThread(t, IF p.kind = "raise"
                        THEN [threads[t] EXCEPT !.pc = "raised"]
                        ELSE [threads[t] EXCEPT !.pc = "open", !.path = p.value])
        /\ UNCHANGED <<native, libVars, usedInst, docs, freed, lastOp, lastArgs>>

\* self._lib = ctypes.CDLL(str(lib_path))
T_open(t) ==
    /\ threads[t].pc = "open"
    /\ openCount' = openCount + 1
    /\ IF native.openable
       THEN /\ libs' = [libs EXCEPT ![threads[t].self].lib = TRUE]
            /\ SetThread(t, [threads[t] EXCEPT !.pc = "bind_required"])
       ELSE /\ libs' = libs
            /\ SetThread(t, [threads[t] EXCEPT !.pc = "raised"])
    /\ UNCHANGED <<native, instance, loadCount, loadOutcome, usedInst, docs, freed, lastOp, lastArgs>>

\* the required signatures
T_bind_required(t) ==
    /\ threads[t].pc = "bind_required"
    /\ libs' = [libs EXCEPT ![threads[t].self] = bind_required(@, native.exports)]
    /\ SetThread(t, [threads[t] EXCEPT !.pc =
            IF FirstMissing(Required, native.exports) <= Len(Required)
            THEN "raised" ELSE "bind_optional"])
    /\ UNCHANGED <<native, instance, openCount, loadCount, loadOutcome, usedInst, docs, freed, lastOp, lastArgs>>

\* the optional signatures and _has_pdf
T_bind_optional(t) ==
    /\ threads[t].pc = "bind_optional"
    /\ libs' = [libs EXCEPT ![threads[t].self] = bind_optional(@, native.exports)]
    /\ SetThread(t, [threads[t] EXCEPT !.pc = "return"])
    /\ UNCHANGED <<native, instance, openCount, loadCount, loadOutcome, usedInst, docs, freed, lastOp, lastArgs>>

\* return cls._instance: the thread obtains the handle.  early records that
\* another thread was still inside _load_library at that moment.
T_return(t) ==
    /\ threads[t].pc = "return"
    /\ usedInst' = usedInst \cup {instance}
    /\ SetThread(t, [threads[t] EXCEPT !.pc = "done", !.got = instance,
            !.early = \E u \in Threads \ {t} : threads[u].pc \in Loading])
    /\ UNCHANGED <<native, libVars, docs, freed, lastOp, lastArgs>>

NextThreads ==
    \E t \in Threads :
        \/ T_check(t)
        \/ T_new(t)
        \/ T_load(t)
        \/ T_locate(t)
        \/ T_open(t)
        \/ T_bind_required(t)
        \/ T_bind_optional(t)
        \/ T_return(t)

SpecThreads == Init /\ [][NextThreads]_vars

(* ---------------------- concurrent use of one handle ------------------- *)

(* Several threads call render and __exit__ on the same Document.  Each     *)
(* method reads self._doc_ptr once in its test and once more to build the   *)
(* argument of the native call, and __exit__ assigns None after the native  *)
(* call returned; a thread switch may fall between any two of these (ctypes *)
(* releases the interpreter lock around the native call).  The code takes   *)
(* no lock.  A thread's self is the Document its method runs on.            *)

\* The native call of a method on document d with the pointer p it read.
D_op(name, d, p, out, calls, req, res) ==
    Op(name, d, p, NoPath, Effect(out, calls, req, res))

\* render: if not self._doc_ptr: raise
D_render_guard(t) ==
    \E d \in Docs :
        /\ threads[t].pc = "idle"
        /\ docs[d].phase = "constructed"
        /\ IF docs[d].doc_ptr = 0
           THEN /\ lastOp' = D_op("Document.render", d, 0, DocumentFreed, <<>>,
                                  NoReq, NoRes)
                /\ lastArgs' = NoArgs
                /\ UNCHANGED threads
           ELSE /\ SetThread(t, [threads[t] EXCEPT !.pc = "render_call", !.self = d])
                /\ UNCHANGED <<lastOp, lastArgs>>
        /\ UNCHANGED <<native, libVars, usedInst, docs, freed>>

\* render: mdacademic_render_html(self._doc_ptr, byref(config)), then
\* _handle_result.
D_render_call(t, options, results) ==
    \E o \in options, result \in results :
        LET d == threads[t].self
            p == docs[d].doc_ptr
            h == handle_result(result)
        IN /\ threads[t].pc = "render_call"
           /\ lastOp' = D_op("Document.render", d, p, h.out,
                             <<Call("mdacademic_render_html", p)>> \o h.calls,
                             [kind |-> "render", math_backend |-> o.math_backend,
                              standalone |-> IF o.standalone THEN 1 ELSE 0,
                              base_path |-> NullPtr],
                             result)
           /\ lastArgs' = o
           /\ SetThread(t, IdleThread)
           /\ UNCHANGED <<native, libVars, usedInst, docs, freed>>

\* __exit__: if self._doc_ptr:
D_exit_guard(t) ==
    \E d \in Docs :
        /\ threads[t].pc = "idle"
        /\ docs[d].phase = "constructed"
        /\ IF docs[d].doc_ptr = 0
           THEN /\ lastOp' = D_op("Document.__exit__", d, 0, Return(<<>>), <<>>,
                                  NoReq, NoRes)
                /\ lastArgs' = NoArgs
                /\ UNCHANGED threads
           ELSE /\ SetThread(t, [threads[t] EXCEPT !.pc = "exit_call", !.self = d])
                /\ UNCHANGED <<lastOp, lastArgs>>
        /\ UNCHANGED <<native, libVars, usedInst, docs, freed>>

\* __exit__: mdacademic_free_document(self._doc_ptr)
D_exit_call(t) ==
    LET d == threads[t].self
        p == docs[d].doc_ptr
        calls == <<Call("mdacademic_free_document", p)>>
    IN /\ threads[t].pc = "exit_call"
       /\ freed' = CountFrees(calls)
       /\ lastOp' = D_op("Document.__exit__", d, p, Return(<<>>), calls, NoReq, NoRes)
       /\ lastArgs' = NoArgs
       /\ SetThread(t, [threads[t] EXCEPT !.pc = "exit_null"])
       /\ UNCHANGED <<native, libVars, usedInst, docs>>

\* __exit__: self._doc_ptr = None
D_exit_null(t) ==
    LET d == threads[t].self IN
    /\ threads[t].pc = "exit_null"
    /\ docs' = [docs EXCEPT ![d] = MarkReleased([docs[d] EXCEPT !.doc_ptr = 0])]
    /\ SetThread(t, IdleThread)
    /\ UNCHANGED <<native, libVars, usedInst, freed, lastOp, lastArgs>>

\* One thread constructs the Documents; then any thread may use them.
NextHandleThreads ==
    \/ Do_Document_init({NullPtr})
    \/ \E t \in Threads :
        \/ D_render_guard(t)
        \/ D_render_call(t, {[math_backend |-> KATEX, standalone |-> FALSE]},
                         {RenderResult(Ptr(<<PLAIN>>), NullPtr)})
        \/ D_exit_guard(t)
        \/ D_exit_call(t)
        \/ D_exit_null(t)

SpecHandleThreads == InitRender /\ [][NextHandleThreads]_vars

(* -------------------------------- claims ------------------------------- *)

CallsOf(fns) == Cardinality({i \in 1..Len(lastOp.calls) : lastOp.calls[i].fn \in fns})

Releases == {"Document.__exit__", "Document.__del__"}

\* C1: on a Document whose parse succeeded, mdacademic_free_document is called
\* at most once with the stored pointer: not at all before the first release,
\* exactly once from the first release on, after which the stored pointer is
\* None; a release that finds the pointer None calls nothing.
C1_FreedExactlyOnce ==
    \A d \in Docs :
        docs[d].parse = "ok" =>
            /\ freed[d] <= 1
            /\ (docs[d].released => freed[d] = 1 /\ docs[d].doc_ptr = 0)
            /\ (~docs[d].released => freed[d] = 0 /\ docs[d].doc_ptr = d)
            /\ (lastOp.doc = d /\ lastOp.name \in Releases /\ lastOp.pre = 0
                    => lastOp.calls = <<>>)

\* C1 witness: the finalizer ran on a document a with-block had released.
C1_Witness ==
    \E d \in Docs :
        /\ docs[d].parse = "ok" /\ docs[d].released /\ freed[d] = 1
        /\ lastOp.doc = d /\ lastOp.name = "Document.__del__" /\ lastOp.pre = 0

\* C2: render on a released Document raises MarkdownAcademicError("Document
\* has been freed") and makes no native call, so the released pointer reaches
\* no native function.
C2_RenderAfterReleaseFails ==
    (lastOp.name = "Document.render" /\ docs[lastOp.doc].released)
        => /\ lastOp.out = DocumentFreed
           /\ lastOp.calls = <<>>

\* C2 witness: a render call on a released Document.
C2_Witness ==
    /\ lastOp.name = "Document.render"
    /\ docs[lastOp.doc].released
    /\ freed[lastOp.doc] = 1
    /\ lastOp.out.kind = "raise"

\* C3: every result struct received from mdacademic_parse_and_render or
\* mdacademic_render_html is passed to mdacademic_free_result exactly once,
\* however the unwrap step ends; no struct received, no free.
C3_ResultFreedOnce ==
    /\ CallsOf({"mdacademic_free_result"})
         = CallsOf({"mdacademic_parse_and_render", "mdacademic_render_html"})
    /\ (lastOp.res.kind = "render" => CallsOf({"mdacademic_free_result"}) = 1)

\* C3 witness: decoding the error text failed in a render from a handle, and
\* the struct was freed.
C3_Witness ==
    /\ lastOp.name = "Document.render"
    /\ lastOp.res.kind = "render"
    /\ lastOp.out.exc = "UnicodeDecodeError"
    /\ Truthy(lastOp.res.error)
    /\ CallsOf({"mdacademic_free_result"}) = 1

\* C4: every PDF result struct has its native memory released exactly once on
\* every path of render_pdf: the error string when one is set, the data
\* buffer when it holds bytes.
C4_PdfResultReleased ==
    lastOp.res.kind = "pdf" =>
        /\ CallsOf({"mdacademic_free_string"})
             = (IF Truthy(lastOp.res.error) THEN 1 ELSE 0)
        /\ CallsOf({"mdacademic_free_pdf_data"})
             = (IF lastOp.res.data /\ lastOp.res.len > 0 THEN 1 ELSE 0)

\* C5: in a single-threaded run the native library is opened at most once and
\* _load_library runs at most once; there is one _Library object and every
\* operation obtained that object, also after a failed first use.
C5_LoadedAtMostOnce ==
    /\ openCount <= 1
    /\ loadCount <= 1
    /\ Len(libs) <= 1
    /\ usedInst \subseteq {instance}
    /\ (instance = 0 => libs = <<>> /\ usedInst = {})

\* C5 witness: an operation after a first use that failed to open the library.
C5_Witness ==
    /\ loadOutcome = "MarkdownAcademicError"
    /\ openCount = 1
    /\ usedInst = {instance}
    /\ lastOp.name = "render_pdf"

\* C6: with concurrent first use the native library is opened at most once,
\* and no thread obtains the handle while another thread is still loading.
C6_FirstUseSerialized ==
    /\ openCount <= 1
    /\ \A t \in Threads : ~threads[t].early

PdfOps == {"render_pdf", "render_pdf_to_file"}

\* C7: with the library loaded and the PDF flag false, render_pdf and
\* render_pdf_to_file raise MarkdownAcademicError (PDF support not available)
\* and call no native function.
C7_PdfGate ==
    (lastOp.name \in PdfOps /\ libs[instance].lib /\ libs[instance].has_pdf = "false")
        => /\ lastOp.out = Unavailable
           /\ lastOp.calls = <<>>

\* C7 witness: render_pdf_to_file refused although the library exports that
\* very symbol (another optional symbol is missing).
C7_Witness ==
    /\ lastOp.name = "render_pdf_to_file"
    /\ libs[instance].lib /\ libs[instance].has_pdf = "false"
    /\ "mdacademic_render_pdf_to_file" \in native.exports
    /\ lastOp.out.kind = "raise"

\* The PDF-specific failures of a call that got past _Library().
PdfUnavailable ==
    lastOp.name \in PdfOps /\ libs[instance].lib /\ libs[instance].has_pdf = "false"
PdfNativeError ==
    /\ lastOp.res.kind = "pdf"
    /\ Truthy(lastOp.res.error) /\ decode(lastOp.res.error.bytes).ok
PdfEmptyBuffer ==
    /\ lastOp.res.kind = "pdf"
    /\ ~Truthy(lastOp.res.error)
    /\ (~lastOp.res.data \/ lastOp.res.len = 0)
PdfBadStatus == lastOp.res.kind = "status" /\ lastOp.res.status # 0

AllOptional == Range(Optional) \subseteq native.exports

\* C9: once the library was opened, a missing optional symbol never makes
\* loading raise; _has_pdf is true exactly when all three optional symbols
\* were bound, false otherwise, and has_pdf_support returns that flag.
C9_OptionalFlag ==
    libs # <<>> /\ libs[instance].lib =>
        /\ loadOutcome = "ok"
        /\ libs[instance].has_pdf = (IF AllOptional THEN "true" ELSE "false")
        /\ (libs[instance].has_pdf = "true"
                => Range(Optional) \subseteq libs[instance].bound)
        /\ (lastOp.name = "has_pdf_support"
                => lastOp.out = Return(<<IF AllOptional THEN "true" ELSE "false">>))

\* C9 witness: only mdacademic_free_pdf_data is missing, and a later
\* has_pdf_support call answers False.
C9_Witness ==
    /\ libs # <<>> /\ libs[instance].lib
    /\ Range(Optional) \ native.exports = {"mdacademic_free_pdf_data"}
    /\ lastOp.name = "has_pdf_support" /\ lastOp.path = NoPath
    /\ lastOp.out = Return(<<"false">>)

\* C10: when the native parse returns NULL, __init__ raises ParseError, the
\* stored pointer stays None, and no operation on that object (the failing
\* __init__, __exit__, the finalizer) calls mdacademic_free_document.
C10_NullParseLeavesNoHandle ==
    \A d \in Docs :
        docs[d].parse = "null" =>
            /\ docs[d].doc_ptr = 0
            /\ docs[d].phase \in {"failed", "collected"}
            /\ freed[d] = 0
            /\ (lastOp.doc = d => CallsOf({"mdacademic_free_document"}) = 0)
            /\ (lastOp.doc = d /\ lastOp.name = "Document.__init__"
                    => lastOp.out = Raise("ParseError", <<"Failed to parse document">>))

\* C10 witness: the finalizer ran on an object whose parse had returned NULL.
C10_Witness ==
    \E d \in Docs :
        /\ docs[d].parse = "null" /\ docs[d].phase = "collected"
        /\ lastOp.doc = d /\ lastOp.name = "Document.__del__"

\* The class the spec assigns to a native error message: the parse marker
\* first, then the render marker, else the base class.
ClassOf(msg) ==
    IF Contains(msg, PARSE_MARK) THEN "ParseError"
    ELSE IF Contains(msg, RENDER_MARK) THEN "RenderError"
    ELSE "MarkdownAcademicError"

\* C11 (as stated): whenever a render result carries a non-empty error
\* message, the operation raises the error class chosen by the markers in the
\* message, with the message bytes as its text; classifying never fails.
\* Violated: a message that is not valid UTF-8 ends in UnicodeDecodeError.
C11_EveryMessageClassified ==
    (lastOp.res.kind = "render" /\ Truthy(lastOp.res.error))
        => lastOp.out = Raise(ClassOf(lastOp.res.error.bytes), lastOp.res.error.bytes)

\* C11: the failing case, a render result whose error message cannot be
\* decoded, has been unwrapped.
C11_UndecodableMessage ==
    /\ lastOp.res.kind = "render"
    /\ Truthy(lastOp.res.error)
    /\ ~decode(lastOp.res.error.bytes).ok
    /\ lastOp.out.exc = "UnicodeDecodeError"

\* C12 (as stated): render and parse_and_render end every result struct
\* either by returning the decoded data, and then only for a struct with data
\* and no error message, or by raising one of the package's error classes; a
\* struct with both fields or with neither raises.
\* Violated: data or an error message that is not valid UTF-8 ends in
\* UnicodeDecodeError, the defect of C11.
C12_EveryResultSurfaced ==
    (lastOp.name \in {"render", "parse_and_render"} /\ lastOp.res.kind = "render")
        => LET res == lastOp.res
               dataOnly == ~res.data.null /\ ~Truthy(res.error)
           IN /\ lastOp.out.kind = "return"
                    => dataOnly /\ lastOp.out.value = res.data.bytes
              /\ lastOp.out.kind = "raise" => lastOp.out.exc \in MdErrors
              /\ ~dataOnly => lastOp.out.kind = "raise"

\* C12: the failing case, a struct with data only whose bytes cannot be
\* decoded, has been unwrapped by a one-shot entry point.
C12_UndecodableData ==
    /\ lastOp.name \in {"render", "parse_and_render"}
    /\ lastOp.res.kind = "render"
    /\ ~lastOp.res.data.null /\ ~Truthy(lastOp.res.error)
    /\ lastOp.out.exc = "UnicodeDecodeError"

SupportedSystems == {"Linux", "Darwin", "Windows"}

\* C13: on Linux, Darwin and Windows the locator returns a path and never
\* raises: the override path when the variable is set and the file exists,
\* else the package copy when it exists, else the release build when it
\* exists, else the debug build when it exists, else the bare file name.
C13_LocatorPriority ==
    (lastOp.name = "_get_library_path" /\ lastArgs.system \in SupportedSystems)
        => LET e == lastArgs
               name == lib_name(e.system)
               path == lastOp.out.value
               noOverride == e.override # "exists"
           IN /\ lastOp.out.kind = "return"
              /\ e.override = "exists" => path = <<"$MARKDOWN_ACADEMIC_LIB">>
              /\ noOverride /\ e.package => path = <<"package", name>>
              /\ noOverride /\ ~e.package /\ e.release
                    => path = <<"rust/target/release", name>>
              /\ noOverride /\ ~e.package /\ ~e.release /\ e.debug
                    => path = <<"rust/target/debug", name>>
              /\ noOverride /\ ~e.package /\ ~e.release /\ ~e.debug
                    => path = <<name>>

\* C13 witness: the override names a missing file, there is no package copy,
\* and both development builds exist: the release build is returned.
C13_Witness ==
    /\ lastOp.name = "_get_library_path"
    /\ lastArgs.system = "Darwin" /\ lastArgs.override = "missing"
    /\ ~lastArgs.package /\ lastArgs.release /\ lastArgs.debug
    /\ lastOp.out = Return(<<"rust/target/release", "libmarkdown_academic.dylib">>)

UnsupportedPlatform == Raise("MarkdownAcademicError", <<"Unsupported platform">>)

\* C14 (as stated): on any other system the locator raises the
\* unsupported-platform error, whatever the override variable holds.
C14_UnsupportedAlwaysFails ==
    (lastOp.name = "_get_library_path" /\ lastArgs.system \notin SupportedSystems)
        => lastOp.out = UnsupportedPlatform

\* C14 (amended): on any other system the locator returns the override path
\* when the variable names an existing file, and raises the
\* unsupported-platform error in every other case, whichever files exist.
C14_UnsupportedFailsWithoutOverride ==
    (lastOp.name = "_get_library_path" /\ lastArgs.system \notin SupportedSystems)
        => /\ lastArgs.override = "exists"
                => lastOp.out = Return(<<"$MARKDOWN_ACADEMIC_LIB">>)
           /\ lastArgs.override # "exists" => lastOp.out = UnsupportedPlatform

\* C14 witness: an unknown system, the override names a missing file and a
\* package copy exists: the locator raised.
C14_Witness ==
    /\ lastOp.name = "_get_library_path"
    /\ lastArgs.system \notin SupportedSystems
    /\ lastArgs.override = "missing" /\ lastArgs.package
    /\ lastOp.out = UnsupportedPlatform

\* How the spec marshals an Optional[str]: None to NULL, any str, the empty
\* one too, to a pointer to its bytes.
MarshalOptional(s) == IF s.null THEN NullPtr ELSE Ptr(s.bytes)

\* C15 (as stated): in every request struct sent, base_path (and title in a
\* PDF request) is NULL when the caller gave None and a non-null pointer to
\* the encoded bytes when the caller gave a string, the empty string too.
\* Violated: an empty string is sent as NULL.
C15_PresentStringNeverNull ==
    /\ (lastOp.req.kind = "render" /\ lastOp.name \in {"render", "parse_and_render"})
            => lastOp.req.base_path
                    = IF lastArgs.is_none THEN NullPtr
                      ELSE MarshalOptional(lastArgs.base_path)
    /\ lastOp.req.kind = "pdf"
            => /\ lastOp.req.title = MarshalOptional(lastArgs.title)
               /\ lastOp.req.base_path = MarshalOptional(lastArgs.base_path)

\* C15: the failing case, a request built from an empty base_path string.
C15_EmptyStringSent ==
    /\ lastOp.req.kind \in {"render", "pdf"}
    /\ lastOp.name \in {"render", "parse_and_render", "render_pdf", "render_pdf_to_file"}
    /\ lastArgs.base_path = Ptr(<<>>)
    /\ lastOp.req.base_path = NullPtr

OneShot == {"render", "parse_and_render"}

\* C16, the struct: a one-shot request carries the configured math backend as
\* its integer, standalone as 1 or 0, and a missing config is sent as the
\* struct of RenderConfig(): KATEX, 0, NULL.
C16_Struct ==
    (lastOp.req.kind = "render" /\ lastOp.name \in OneShot)
        => LET sent == [kind |-> "render", math_backend |-> 0, standalone |-> 0,
                        base_path |-> NullPtr]
           IN /\ lastOp.req.math_backend \in {0, 1, 2}
              /\ lastOp.req.standalone \in {0, 1}
              /\ ~lastArgs.is_none
                    => /\ lastOp.req.math_backend = lastArgs.math_backend
                       /\ (lastOp.req.standalone = 1) = lastArgs.standalone
              /\ (lastArgs.is_none \/ lastArgs = DefaultRenderConfig) => lastOp.req = sent

\* C16, the equivalence: two successive one-shot calls, render with keyword
\* options or parse_and_render with a RenderConfig, given the same options,
\* send the same request struct.
C16_SameRequest ==
    (/\ lastOp.req.kind = "render" /\ lastOp.name \in OneShot
     /\ lastOp'.req.kind = "render" /\ lastOp'.name \in OneShot
     /\ lastArgs' = lastArgs)
        => lastOp'.req = lastOp.req

\* C16: every one-shot request struct carries the integer discriminant of the
\* math backend and standalone as 1 or 0, None is marshalled like
\* RenderConfig(), and render(text, options) sends the same struct as
\* parse_and_render(text, RenderConfig(options)).
C16_RequestStruct == []C16_Struct /\ [][C16_SameRequest]_vars

\* C16 witness: render(text, math_backend=MATHML, standalone=True) sent
\* {2, 1, NULL}.
C16_Witness ==
    /\ lastOp.name = "render"
    /\ lastArgs = [is_none |-> FALSE, math_backend |-> MATHML, standalone |-> TRUE,
                   base_path |-> NullPtr]
    /\ lastOp.req = [kind |-> "render", math_backend |-> 2, standalone |-> 1,
                     base_path |-> NullPtr]

(* The native engine as C17 assumes it: a deterministic function of what it *)
(* is given, whose one-shot call is its parse followed by its render from   *)
(* the handle on the same request values.  The text is the same on both     *)
(* paths and is left out; a document is represented by the parse call that  *)
(* made it and an answer by the document and the request it came from.      *)
EngineParse(fn, req) == [fn |-> fn, req |-> req]
EngineRenderHtml(doc, req) == <<doc, req>>
EngineParseAndRender(req) ==
    EngineRenderHtml(IF req.base_path.null
                     THEN EngineParse("mdacademic_parse", NoReq)
                     ELSE EngineParse("mdacademic_parse_with_config", req),
                     req)

\* Document d was just rendered: the one-shot call for the same options and
\* the base path d was constructed with asks the engine for the same answer,
\* and unwraps that answer to the same outcome.
SameAsOneShot(d) ==
    LET cfg == [is_none |-> FALSE, math_backend |-> lastArgs.math_backend,
                standalone |-> lastArgs.standalone, base_path |-> docs[d].base_path]
        one == parse_and_render(Library_new(DefaultLocatorInput), cfg, lastOp.res)
    IN /\ EngineRenderHtml(docs[d].parsed, lastOp.req) = EngineParseAndRender(one.req)
       /\ lastOp.out = one.out

RenderedFromHandle == lastOp.name = "Document.render" /\ lastOp.res.kind = "render"

\* C17 (as stated): every render from a handle has the outcome of the
\* one-shot call with the same math backend, standalone flag and base path.
\* Violated: with a base path, the handle path parses with {KATEX, 0, base
\* path} and renders with a NULL base path, the one-shot call sends the base
\* path with the render options.
C17_RoundTrip == RenderedFromHandle => SameAsOneShot(lastOp.doc)

\* C17 (amended): a render from a handle constructed without a base path
\* (None or the empty string) has the outcome of the one-shot call with the
\* same math backend and standalone flag and no base path.
C17_RoundTripWithoutBasePath ==
    (RenderedFromHandle /\ ~Truthy(docs[lastOp.doc].base_path))
        => SameAsOneShot(lastOp.doc)

\* C17 witness: Document(text).render(math_backend=MATHML, standalone=True)
\* returned the text the engine answered.
C17_Witness ==
    /\ RenderedFromHandle
    /\ docs[lastOp.doc].base_path = NullPtr
    /\ lastArgs = [math_backend |-> MATHML, standalone |-> TRUE]
    /\ lastOp.out = Return(<<PLAIN>>)

\* C18 (as stated): whenever render or __exit__ hands a document pointer to
\* the native engine, the pointer has not been freed before: a render call
\* finds no earlier free of it, and a free call is the first free of it.
\* Violated: two threads pass the test of self._doc_ptr before either frees.
C18_NoFreedPointerPassed ==
    \A i \in 1..Len(lastOp.calls) :
        LET c == lastOp.calls[i] IN
        /\ (c.fn = "mdacademic_render_html" /\ c.ptr \in Docs) => freed[c.ptr] = 0
        /\ (c.fn = "mdacademic_free_document" /\ c.ptr \in Docs) => freed[c.ptr] = 1

\* C18: the failing case, render handed over a pointer that __exit__ of
\* another thread had freed and not yet replaced by None.
C18_RenderAfterFree ==
    \E t \in Threads, d \in Docs :
        /\ threads[t].pc = "exit_null" /\ threads[t].self = d
        /\ lastOp.name = "Document.render"
        /\ Call("mdacademic_render_html", d) \in Range(lastOp.calls)
        /\ freed[d] = 1

PublicOps ==
    {"render", "parse_and_render", "Document.__init__", "get_library_version",
     "has_pdf_support", "render_pdf", "render_pdf_to_file"}

FailedOpen == openCount >= 1 /\ ~native.openable

\* C19 (as stated): once the first use has failed to open the library, the
\* call that tried raised the load error, and every later public operation
\* raises MarkdownAcademicError("Library not loaded"); none calls a native
\* function.
\* Violated: has_pdf_support, render_pdf and render_pdf_to_file end in
\* AttributeError.
C19_LaterOpsNotLoaded ==
    (FailedOpen /\ lastOp.name \in PublicOps)
        => /\ lastOp.calls = <<>>
           /\ lastOp.path # NoPath
                => lastOp.out = Raise("MarkdownAcademicError", <<"Failed to load">>)
           /\ lastOp.path = NoPath => lastOp.out = NotLoaded

\* C19: the failing case, has_pdf_support called after a failed open.
C19_AttributeErrorEscapes ==
    /\ FailedOpen
    /\ lastOp.name = "has_pdf_support" /\ lastOp.path = NoPath
    /\ lastOp.out.exc = "AttributeError"

\* C20 (as stated): a native function is called only when all eight required
\* signatures are bound; after a first use that failed on a missing required
\* symbol no operation calls one.
\* Violated: the singleton keeps the opened library, and later operations
\* call the functions the build does export.
C20_NoCallThroughPartialTable ==
    lastOp.calls # <<>>
        => /\ loadOutcome = "ok"
           /\ Range(Required) \subseteq libs[instance].bound

\* C20: the failing case, render called a native function after the first
\* use had failed binding a required symbol.
C20_CallAfterFailedBinding ==
    /\ loadOutcome = "AttributeError"
    /\ lastOp.name = "render" /\ lastOp.path = NoPath
    /\ Call("mdacademic_parse_and_render", 0) \in Range(lastOp.calls)

\* The native memory a release call frees, named by the reads that touch it.
FreedBy(fn) ==
    CASE fn = "mdacademic_free_result" -> {"read data", "read error"}
      [] fn = "mdacademic_free_string" -> {"read error"}
      [] fn = "mdacademic_free_pdf_data" -> {"read data"}
      [] OTHER -> {}

\* In the log of the last operation, a read of the data comes before the call
\* of the release function fn.
CopiedBefore(fn) ==
    \E i, j \in 1..Len(lastOp.calls) :
        /\ i < j
        /\ lastOp.calls[i] = Read("read data")
        /\ lastOp.calls[j].fn = fn

\* C21: no operation reads native memory after the call that frees it, and
\* an operation that returns a result read the data before the free
\* (mdacademic_free_result for HTML, mdacademic_free_pdf_data for PDF) and
\* returns what it read.
C21_CopyBeforeFree ==
    /\ \A i, j \in 1..Len(lastOp.calls) :
            i < j => lastOp.calls[j].fn \notin FreedBy(lastOp.calls[i].fn)
    /\ (lastOp.res.kind = "render" /\ lastOp.out.kind = "return")
            => /\ CopiedBefore("mdacademic_free_result")
               /\ lastOp.out.value = lastOp.res.data.bytes
    /\ (lastOp.res.kind = "pdf" /\ lastOp.out.kind = "return")
            => /\ CopiedBefore("mdacademic_free_pdf_data")
               /\ Len(lastOp.out.value) = lastOp.res.len

\* C21 witness: render returned the text of a result struct it had read and
\* then freed.
C21_Witness ==
    /\ lastOp.name = "render"
    /\ lastOp.res.kind = "render"
    /\ lastOp.out = Return(<<PLAIN>>)
    /\ CopiedBefore("mdacademic_free_result")

\* The release step of the cleanup region of _handle_result fails: the
\* library has no mdacademic_free_result to call.
ReleaseFails == lastOp.res.kind = "render" /\ ~Exported("mdacademic_free_result")

\* C22 (as stated): when unwrapping a render result raises a classified
\* native error or the missing-data error, and the release in the cleanup
\* region fails too, the caller gets the primary error.
\* Violated: the exception raised in the finally clause replaces it.
C22_PrimaryErrorSurvives ==
    /\ (ReleaseFails /\ Truthy(lastOp.res.error) /\ decode(lastOp.res.error.bytes).ok)
            => lastOp.out = Raise(ClassOf(lastOp.res.error.bytes), lastOp.res.error.bytes)
    /\ (ReleaseFails /\ ~Truthy(lastOp.res.error) /\ lastOp.res.data.null)
            => lastOp.out = Raise("MarkdownAcademicError", <<"No data returned">>)

\* C22: the failing case, a native render error unwrapped by render while the
\* release failed, reached the caller as AttributeError.
C22_PrimaryErrorReplaced ==
    /\ ReleaseFails
    /\ lastOp.name = "render"
    /\ lastOp.res.error = Ptr(<<RENDER_MARK>>)
    /\ lastOp.out.exc = "AttributeError"

\* A step that is a render on a live handle: the handle's pointer is set
\* before the step and the step's operation is Document.render.
RenderOnLive ==
    /\ lastOp'.name = "Document.render"
    /\ docs[lastOp'.doc].doc_ptr > 0

\* What a render step on a live handle does when it is a self-loop: the
\* Document objects and the count of frees are as before, the call log has
\* one mdacademic_render_html with the stored pointer and no
\* mdacademic_free_document, and the request carries the options of this call.
SelfLoop ==
    LET d == lastOp'.doc IN
    /\ docs' = docs
    /\ freed' = freed
    /\ \A i \in 1..Len(lastOp'.calls) :
            lastOp'.calls[i].fn # "mdacademic_free_document"
    /\ lastOp'.calls[1] = Call("mdacademic_render_html", docs[d].doc_ptr)
    /\ lastOp'.req = [kind |-> "render", math_backend |-> lastArgs'.math_backend,
                      standalone |-> IF lastArgs'.standalone THEN 1 ELSE 0,
                      base_path |-> NullPtr]

\* C23: every render on a live handle, whether it returns or raises, leaves
\* the stored pointer as it was (non-null), frees nothing, and sends the
\* options of its own call; so renders can follow one another on one parse.
C23_RenderIsSelfLoop == [][RenderOnLive => SelfLoop]_vars

\* C23 witness: a render on a live handle raised RenderError, and the handle
\* is still live and unfreed.
C23_Witness ==
    /\ lastOp.name = "Document.render"
    /\ lastOp.out.exc = "RenderError"
    /\ docs[lastOp.doc].doc_ptr = lastOp.doc
    /\ docs[lastOp.doc].phase = "constructed"
    /\ freed[lastOp.doc] = 0

ParseFns == {"mdacademic_parse", "mdacademic_parse_with_config"}

\* A Document construction that got a loaded library.
Constructing == lastOp.name = "Document.__init__" /\ loadOutcome = "ok"

\* C24 (as stated): a construction calls exactly one native parse function,
\* once: mdacademic_parse_with_config, with the base path in the request,
\* when the caller gave a base path string, and mdacademic_parse when the
\* caller gave None.
\* Violated: an empty base path string selects mdacademic_parse.
C24_ParseVariantBySuppliedPath ==
    Constructing
        => /\ CallsOf(ParseFns) = 1
           /\ ~lastArgs.base_path.null
                => /\ lastOp.calls = <<Call("mdacademic_parse_with_config", 0)>>
                   /\ lastOp.req.kind = "render"
                   /\ lastOp.req.base_path = Ptr(lastArgs.base_path.bytes)
           /\ lastArgs.base_path.null
                => /\ lastOp.calls = <<Call("mdacademic_parse", 0)>>
                   /\ lastOp.req = NoReq

\* C24: the failing case, Document(text, base_path="") called the plain
\* mdacademic_parse.
C24_EmptyPathParsedPlain ==
    /\ Constructing
    /\ lastArgs.base_path = Ptr(<<>>)
    /\ lastOp.calls = <<Call("mdacademic_parse", 0)>>

\* The lifecycle state of a Document object: 0 Unparsed (no native document
\* yet, or the parse failed), 1 Parsed (the pointer is set), 2 Released.
Lifecycle(doc) == IF doc.released THEN 2 ELSE IF doc.doc_ptr > 0 THEN 1 ELSE 0

\* A released handle holds None.
ReleasedIsNull == \A d \in Docs : docs[d].released => docs[d].doc_ptr = 0

\* No step moves a Document backwards, and a released one stays released.
MovesForward ==
    \A d \in Docs :
        /\ Lifecycle(docs'[d]) >= Lifecycle(docs[d])
        /\ docs[d].released => docs'[d].released /\ docs'[d].doc_ptr = 0

\* C25: a Document only moves from Unparsed to Parsed to Released; once
\* released its stored pointer is None and no operation, __enter__ included,
\* sets it again.
C25_ReleasedIsAbsorbing == []ReleasedIsNull /\ [][MovesForward]_vars

\* C25 witness: a with-block was entered again on a released handle, whose
\* pointer is still None.
C25_Witness ==
    /\ lastOp.name = "Document.__enter__"
    /\ docs[lastOp.doc].released
    /\ docs[lastOp.doc].doc_ptr = 0
    /\ freed[lastOp.doc] = 1

====
